---- MODULE Spec2Model ----
(***************************************************************************)
(* A model of CRDT2.cpp: the copy-on-write buffers recv_ptr, local_ptr and *)
(* recent_ptr, the listener thread and the main thread that share them,    *)
(* detect_changes (the per-line diff), try_merge_if_needed (the trigger)   *)
(* and merge_and_apply (last-writer-wins resolution and replay), and       *)
(* register_user on the Registry the processes share.                      *)
(*                                                                         *)
(* A std::string or a char array is a sequence of bytes (naturals); a      *)
(* document is a sequence of lines.  C++ indexes from 0 and TLA+ from 1:   *)
(* line number n of the code is doc[n + 1] here, and the column interval   *)
(* [sc, ec) of a line is SubSeq(line, sc + 1, ec).                         *)
(***************************************************************************)
EXTENDS Integers, Sequences, FiniteSets, TLC

\* ------------------------------------------------------------------------
\* Program constants
\* ------------------------------------------------------------------------
MAX_USERS == 5

MERGE_THRESHOLD == 5

MAX_NOTIFICATIONS == 5

\* sizeof(UserInfo::user_id) and sizeof(UpdateObject::user_id).
USER_ID_SIZE == 32

\* sizeof(UpdateObject), the count read and write are called with, under the
\* LP64 layout: op_type at 0, line at 12, start_col at 16, end_col at 20,
\* old_content at 24, new_content at 280, timestamp at 536, ts at 568 and
\* user_id at 576.
RECORD_SIZE == 608

\* sizeof(upd.old_content) and sizeof(upd.new_content).
CONTENT_SIZE == 256

\* sizeof(upd.old_content) - 1: what strncpy copies at most into the field.
CONTENT_CAP == CONTENT_SIZE - 1

\* The least value of a 32-bit int (line, start_col and end_col are int).
INT_MIN == -2147483647 - 1

INT_MAX == 2147483647

\* ------------------------------------------------------------------------
\* Strings
\* ------------------------------------------------------------------------
Min(a, b) == IF a <= b THEN a ELSE b

Max(a, b) == IF a >= b THEN a ELSE b

\* The C string a char array holds: its bytes before the first NUL.
CStr(s) ==
    LET nul == {k \in 1..Len(s) : s[k] = 0} IN
    IF nul = {} THEN s
    ELSE SubSeq(s, 1, (CHOOSE k \in nul : \A j \in nul : k <= j) - 1)

\* strncpy(field, s.c_str(), cap) into a zeroed field of cap + 1 bytes, read
\* back as a C string: the bytes of s before its first NUL, at most cap.
Strncpy(s, cap) ==
    LET c == CStr(s) IN SubSeq(c, 1, Min(Len(c), cap))

\* strcmp on two C strings: negative, zero or positive (as -1, 0, 1); bytes
\* compare as unsigned char, a proper prefix is the smaller.
RECURSIVE strcmp(_, _)
strcmp(s, t) ==
    IF s = <<>> /\ t = <<>> THEN 0
    ELSE IF s = <<>> THEN -1
    ELSE IF t = <<>> THEN 1
    ELSE IF Head(s) < Head(t) THEN -1
    ELSE IF Head(s) > Head(t) THEN 1
    ELSE strcmp(Tail(s), Tail(t))

\* base.substr(pos): the bytes from 0-based position pos on (pos <= size).
SubstrFrom(s, pos) == SubSeq(s, pos + 1, Len(s))

\* base.substr(pos, n) with pos + n <= size.
Substr(s, pos, n) == SubSeq(s, pos + 1, pos + n)

\* ------------------------------------------------------------------------
\* merge_and_apply: conflict resolution
\* ------------------------------------------------------------------------
ranges_overlap(a1, b1, a2, b2) == ~(b1 <= a2 \/ b2 <= a1)

\* The two operations compared by the inner loop conflict.
Conflict(u, v) ==
    /\ u.line = v.line
    /\ ranges_overlap(u.start_col, u.end_col, v.start_col, v.end_col)

\* A resolution that looks at neither ts nor user_id: the earlier operation of
\* the batch always wins.  Loser differs from it, and C2 tells them apart.
LoserByPosition(u, v) == "j"

\* The body of the inner loop for the pair (i, j) with keep[i] and keep[j]
\* true and all[i], all[j] in conflict: "j" when keep[j] becomes false and
\* the loop goes on, "i" when keep[i] becomes false and the loop breaks.
Loser(u, v) ==
    IF u.ts > v.ts THEN "j"
    ELSE IF u.ts < v.ts THEN "i"
    ELSE IF strcmp(u.user_id, v.user_id) <= 0 THEN "j"
    ELSE "i"

\* An inner loop that ends after the first j it looks at.  InnerLoop differs
\* from it, and C16 tells them apart.
InnerLoopFirst(all, keep, i, j) ==
    IF j > Len(all) THEN keep
    ELSE IF keep[j] /\ Conflict(all[i], all[j])
         THEN IF Loser(all[i], all[j]) = "j"
              THEN [keep EXCEPT ![j] = FALSE]
              ELSE [keep EXCEPT ![i] = FALSE]
         ELSE keep

\* The inner loop from j on, for a fixed i with keep[i] true on entry.
RECURSIVE InnerLoop(_, _, _, _)
InnerLoop(all, keep, i, j) ==
    IF j > Len(all) THEN keep
    ELSE IF ~keep[j] THEN InnerLoop(all, keep, i, j + 1)
    ELSE IF Conflict(all[i], all[j])
         THEN IF Loser(all[i], all[j]) = "j"
              THEN InnerLoop(all, [keep EXCEPT ![j] = FALSE], i, j + 1)
              ELSE [keep EXCEPT ![i] = FALSE]
         ELSE InnerLoop(all, keep, i, j + 1)

\* The outer loop from i on.
RECURSIVE OuterLoop(_, _, _)
OuterLoop(all, keep, i) ==
    IF i > Len(all) THEN keep
    ELSE IF ~keep[i] THEN OuterLoop(all, keep, i + 1)
    ELSE OuterLoop(all, InnerLoop(all, keep, i, i + 1), i + 1)

\* keep[] after the conflict-resolution loops, from all true.
Resolve(all) == OuterLoop(all, [i \in 1..Len(all) |-> TRUE], 1)

\* ------------------------------------------------------------------------
\* merge_and_apply: grouping and replay
\* ------------------------------------------------------------------------
\* max_line after the first loop, from -1.
RECURSIVE MaxLine(_)
MaxLine(all) ==
    IF all = <<>> THEN -1
    ELSE LET m == MaxLine(Tail(all)) IN
         IF Head(all).line > m THEN Head(all).line ELSE m

\* while ((int)doc.size() <= max_line) doc.push_back("");
ExtendDoc(doc, max_line) ==
    IF Len(doc) <= max_line
    THEN doc \o [k \in 1..(max_line + 1 - Len(doc)) |-> <<>>]
    ELSE doc

\* updates_by_line[line_no]: the kept operations of one line, in batch order.
RECURSIVE OpsOfLine(_, _, _, _)
OpsOfLine(all, keep, line_no, i) ==
    IF i > Len(all) THEN <<>>
    ELSE (IF keep[i] /\ all[i].line = line_no THEN <<all[i]>> ELSE <<>>)
         \o OpsOfLine(all, keep, line_no, i + 1)

\* The keys of updates_by_line.
KeptLines(all, keep) == {all[i].line : i \in {k \in 1..Len(all) : keep[k]}}

\* ops without its k-th element.
RemoveAt(ops, k) == SubSeq(ops, 1, k - 1) \o SubSeq(ops, k + 1, Len(ops))

\* std::sort with the comparator a.start_col > b.start_col: some arrangement
\* of ops in descending start_col.  The order of operations with equal
\* start_col is unspecified, so every such arrangement is an outcome: any
\* operation of the greatest start_col first, then the others sorted.
RECURSIVE SortOutcomes(_)
SortOutcomes(ops) ==
    IF ops = <<>> THEN {<<>>}
    ELSE LET first == {k \in 1..Len(ops) :
                         \A j \in 1..Len(ops) : ops[k].start_col >= ops[j].start_col}
         IN UNION {{<<ops[k]>> \o rest : rest \in SortOutcomes(RemoveAt(ops, k))} :
                     k \in first}

\* sc or ec: max(0, col), then capped at base.size().
ClampCol(col, size) == Min(Max(0, col), size)

\* The body of the replay loop for one operation.
ApplyOp(base, op) ==
    LET sc == ClampCol(op.start_col, Len(base))
        ec == ClampCol(op.end_col, Len(base))
        left == Substr(base, 0, sc)
        right == IF ec < Len(base) THEN SubstrFrom(base, ec) ELSE <<>>
    IN left \o CStr(op.new_content) \o right

\* The replay loop over the sorted operations of one line.
RECURSIVE Replay(_, _)
Replay(base, ops) ==
    IF ops = <<>> THEN base ELSE Replay(ApplyOp(base, Head(ops)), Tail(ops))

\* The values doc[line_no] can have after the loop body for one line.
MergeLine(base, ops) == {Replay(base, s) : s \in SortOutcomes(ops)}

\* The documents merge_and_apply can write for the batch all on doc, when
\* every kept operation has a line number that is an index of the extended
\* document (see LineInBounds).
MergeOutcomes(all, doc) ==
    LET keep == Resolve(all)
        d0 == ExtendDoc(doc, MaxLine(all))
        lines == {l \in KeptLines(all, keep) : 0 <= l /\ l < Len(d0)}
        outs(l) == MergeLine(d0[l + 1], OpsOfLine(all, keep, l, 1))
        choices == {f \in [lines -> UNION {outs(l) : l \in lines}] :
                      \A l \in lines : f[l] \in outs(l)}
    IN {[n \in 1..Len(d0) |-> IF (n - 1) \in lines THEN f[n - 1] ELSE d0[n]] :
          f \in choices}

\* doc.size() after the while loop.
ExtendedSize(doc, max_line) == Max(Len(doc), max_line + 1)

\* doc[line_no] is an element of doc for every key of updates_by_line.
LineInBounds(all, doc) ==
    \A l \in KeptLines(all, Resolve(all)) :
        0 <= l /\ l < ExtendedSize(doc, MaxLine(all))

\* ------------------------------------------------------------------------
\* register_user and the Registry
\* ------------------------------------------------------------------------
\* The shared memory as ftruncate makes it: zero-filled.  users[i] of the code
\* is users[i + 1] here, as the C string it holds.
EmptyRegistry == [user_count |-> 0, users |-> [k \in 1..MAX_USERS |-> <<>>]]

\* The Registry after register_user(id) on the Registry reg: user_count out of
\* range is reset, the loop looks for id among the entries, and id is stored,
\* cut to the size of the field, when it was not found and there is room.
register_user(reg, id) ==
    LET count == IF reg.user_count < 0 \/ reg.user_count > MAX_USERS
                 THEN 0 ELSE reg.user_count
        exists == \E i \in 0..(count - 1) : strcmp(reg.users[i + 1], CStr(id)) = 0
    IN IF ~exists /\ count < MAX_USERS
       THEN [user_count |-> count + 1,
             users |-> [reg.users EXCEPT ![count + 1] = Strncpy(id, USER_ID_SIZE - 1)]]
       ELSE [user_count |-> count, users |-> reg.users]

\* ------------------------------------------------------------------------
\* State
\* ------------------------------------------------------------------------
VARIABLES
    recv_ptr,     \* the global recv_ptr: the address of the current vector
    local_ptr,    \* the global local_ptr
    recent_ptr,   \* the global recent_ptr
    heap,         \* the vectors made by make_shared, by address
    th,           \* the locals of the listener thread and of the main thread
    file,         \* the lines of <user_id>_doc.txt
    file_mtime,   \* its modification time, as the count of writes to it
    pipe,         \* what peers have written to /tmp/pipe_<user_id>, by write
    sent,         \* the records broadcast_update has written to the peers
    now,          \* time(nullptr)
    msgs_left,    \* records the peers will still write
    edits_left,   \* saves the user will still make in an editor
    polls_left,   \* changes of the file main will still look at
    appended,     \* history: the operations published into each buffer
    drained,      \* history: the operations a drain removed from each buffer
    merged_once,  \* history: the operations handed to a merge batch
    merged_twice, \* history: those handed to a merge batch more than once
    registry      \* the Registry in the shared memory /sync_registry

vars == <<recv_ptr, local_ptr, recent_ptr, heap, th, file, file_mtime, pipe,
          sent, now, msgs_left, edits_left, polls_left, appended, drained,
          merged_once, merged_twice, registry>>

Threads == {"listener", "main"}

\* A shared_ptr holds the address of a vector; Null is a local out of scope.
Null == 0

\* The shared_ptr locals of a thread: cur and next of an append, rcur and
\* rnext (cur and next of append_recent_notification), recv_snapshot and
\* local_snapshot of try_merge_if_needed, ma_recv (recv_snapshot of
\* merge_and_apply) and recent_snapshot of display_file.
Handles == {"cur", "next", "rcur", "rnext", "recv_snapshot", "local_snapshot",
            "ma_recv", "recent_snapshot"}

\* Addresses carry no meaning: heap is the sequence of the vectors some
\* shared_ptr holds, numbered in the order in which the pointers below first
\* name them; a vector is freed with its last owner.
HandleOrder ==
    <<"cur", "next", "rcur", "rnext", "recv_snapshot", "local_snapshot",
      "ma_recv", "recent_snapshot">>

Roots(rp, lp, np, thr) ==
    <<rp, lp, np>> \o [k \in 1..Len(HandleOrder) |-> thr["listener"][HandleOrder[k]]]
                   \o [k \in 1..Len(HandleOrder) |-> thr["main"][HandleOrder[k]]]

\* The distinct addresses of roots, other than Null, in order of appearance.
RECURSIVE Numbering(_, _)
Numbering(roots, seen) ==
    IF roots = <<>> THEN seen
    ELSE IF Head(roots) = Null \/ \E k \in 1..Len(seen) : seen[k] = Head(roots)
         THEN Numbering(Tail(roots), seen)
         ELSE Numbering(Tail(roots), Append(seen, Head(roots)))

\* The number of address a under the numbering order (Null stays Null).
Renamed(order, a) ==
    IF a = Null THEN Null ELSE CHOOSE k \in 1..Len(order) : order[k] = a

\* The locals r with every shared_ptr renamed.
RenamedLocals(order, r) ==
    [r EXCEPT !.cur = Renamed(order, @), !.next = Renamed(order, @),
              !.rcur = Renamed(order, @), !.rnext = Renamed(order, @),
              !.recv_snapshot = Renamed(order, @),
              !.local_snapshot = Renamed(order, @),
              !.ma_recv = Renamed(order, @),
              !.recent_snapshot = Renamed(order, @)]

\* An UpdateObject, as far as the program reads it (op_type is always
\* "replace" and timestamp is the rendering of ts).
NoUpdate ==
    [line |-> 0, start_col |-> 0, end_col |-> 0, old_content |-> <<>>,
     new_content |-> <<>>, ts |-> 0, user_id |-> <<>>]

\* The locals of a thread between two iterations of its loop.
IdleLocals(pc0, lines, mtime) ==
    [pc |-> pc0, upd |-> NoUpdate,
     cur |-> Null, next |-> Null, rcur |-> Null, rnext |-> Null,
     recv_snapshot |-> Null, local_snapshot |-> Null, ma_recv |-> Null,
     recent_snapshot |-> Null,
     local_ops_for_merge |-> <<>>, to_merge |-> <<>>, doc |-> <<>>,
     all |-> <<>>, old_lines |-> lines, new_lines |-> <<>>, i |-> 0,
     last_mod_time |-> mtime, to_send |-> <<>>]

\* The items of a vector.
Items(v) == {v[k] : k \in 1..Len(v)}

\* One step of thread t: its locals become r, the global pointers rp, lp and
\* np, the heap h; the vectors left without an owner are freed.
Commit(t, r, rp, lp, np, h) ==
    LET thr == [th EXCEPT ![t] = r]
        order == Numbering(Roots(rp, lp, np, thr), <<>>)
    IN /\ th' = [u \in Threads |-> RenamedLocals(order, thr[u])]
       /\ recv_ptr' = Renamed(order, rp)
       /\ local_ptr' = Renamed(order, lp)
       /\ recent_ptr' = Renamed(order, np)
       /\ heap' = [a \in 1..Len(order) |-> h[order[a]]]

\* An append that pushes item onto *cur itself and publishes cur again.
\* AppendCopy differs from it, and C6 tells them apart.
AppendInPlace(h, cur, item) ==
    <<cur, [h EXCEPT ![cur] = Append(h[cur], item)]>>

\* make_shared of a vector with the items v: <<its address, the heap>>.
NewVector(h, v) == <<Len(h) + 1, Append(h, v)>>

\* The copy-on-write append: a new vector with the items of *cur and item
\* pushed back.  The result is <<address of the new vector, heap>>.
AppendCopy(h, cur, item) == NewVector(h, Append(h[cur], item))

\* std::make_shared<std::vector<...>>(): a new empty vector.
MakeEmpty(h) == NewVector(h, <<>>)

\* ------------------------------------------------------------------------
\* detect_changes: the diff of one line
\* ------------------------------------------------------------------------
\* argv[1] of this process.
user_id == <<97>>

\* old_lines[i] or new_lines[i], "" past the end.
LineAt(lines, i) == IF i < Len(lines) THEN lines[i + 1] ELSE <<>>

\* A diff that trims no common prefix.  PrefixLoop differs from it, and C8
\* tells them apart.
PrefixLoopNone(old_line, new_line, start_col) == start_col

\* while (start_col < minlen && old_line[start_col] == new_line[start_col])
\*     ++start_col;
\* start_col when the loop ends: the first value, from start_col on, at which
\* the condition fails.
PrefixLoop(old_line, new_line, start_col) ==
    LET minlen == Min(Len(old_line), Len(new_line))
        goes_on(c) == c < minlen /\ old_line[c + 1] = new_line[c + 1]
    IN CHOOSE c \in start_col..Max(start_col, minlen) :
          /\ ~goes_on(c)
          /\ \A d \in start_col..(c - 1) : goes_on(d)

\* The suffix loop: <<old_end, new_end>> when it ends, after the first number
\* n of iterations at which the condition fails.
SuffixLoop(old_line, new_line, start_col, old_end, new_end) ==
    LET goes_on(n) == /\ old_end - n - 1 >= start_col
                      /\ new_end - n - 1 >= start_col
                      /\ old_line[old_end - n] = new_line[new_end - n]
        n == CHOOSE k \in 0..Min(old_end, new_end) :
                /\ ~goes_on(k)
                /\ \A j \in 0..(k - 1) : goes_on(j)
    IN <<old_end - n, new_end - n>>

\* The locals of the loop body for one pair of lines.
DiffLine(old_line, new_line) ==
    LET start_col == PrefixLoop(old_line, new_line, 0)
        ends == SuffixLoop(old_line, new_line, start_col,
                           Len(old_line), Len(new_line))
        old_end == ends[1]
        new_end == ends[2]
    IN [start_col |-> start_col, old_end |-> old_end, new_end |-> new_end,
        old_part |-> IF start_col < old_end
                     THEN Substr(old_line, start_col, old_end - start_col)
                     ELSE <<>>,
        new_part |-> IF start_col < new_end
                     THEN Substr(new_line, start_col, new_end - start_col)
                     ELSE <<>>]

\* The loop body reaches the construction of upd (neither continue is taken).
EmitsUpdate(old_line, new_line) ==
    /\ old_line # new_line
    /\ DiffLine(old_line, new_line).old_part # DiffLine(old_line, new_line).new_part

\* upd as the loop body fills it for line i at time t.
MakeUpdate(old_line, new_line, i, t) ==
    LET d == DiffLine(old_line, new_line) IN
    [line |-> i,
     start_col |-> d.start_col,
     end_col |-> Max(d.old_end, d.new_end),
     old_content |-> Strncpy(d.old_part, CONTENT_CAP),
     new_content |-> Strncpy(d.new_part, CONTENT_CAP),
     ts |-> t,
     user_id |-> Strncpy(user_id, 31)]

\* ------------------------------------------------------------------------
\* Steps shared by the two threads
\* ------------------------------------------------------------------------
\* Each statement that reads or writes a global pointer or the document file
\* is one step; the statements on locals between two of them belong to the
\* step before.  The steps of the two threads interleave.

\* Every shared_ptr local of r out of scope.
Released(r) ==
    [r EXCEPT !.cur = Null, !.next = Null, !.rcur = Null, !.rnext = Null,
              !.recv_snapshot = Null, !.local_snapshot = Null,
              !.ma_recv = Null, !.recent_snapshot = Null,
              !.local_ops_for_merge = <<>>, !.to_merge = <<>>,
              !.doc = <<>>, !.all = <<>>, !.to_send = <<>>]

\* try_merge_if_needed returns to its caller: the listener ends the body of
\* if (n > 0) and reads again, detect_changes ends the loop body for line i.
Return(t, r) ==
    IF t = "listener"
    THEN [Released(r) EXCEPT !.pc = "l_read"]
    ELSE [Released(r) EXCEPT !.pc = "m_dc", !.i = r.i + 1]

\* The history of operations handed to a merge batch, with ops added.
MergedOnce(ops) == merged_once \cup Items(ops)

MergedTwice(ops) ==
    merged_twice \cup (merged_once \cap Items(ops))
                 \cup {ops[k] : k \in {j \in 1..Len(ops) :
                                          \E m \in 1..(j - 1) : ops[m] = ops[j]}}

\* A trigger that waits for more than MERGE_THRESHOLD operations.
\* ShouldMerge differs from it, and C11 tells them apart.
ShouldMergeAbove(total) == total > MERGE_THRESHOLD

\* if (total >= MERGE_THRESHOLD)
ShouldMerge(total) == total >= MERGE_THRESHOLD

\* try_merge_if_needed: auto recv_snapshot = recv_ptr;
TM_Recv(t) ==
    /\ th[t].pc = "tm_recv"
    /\ Commit(t, [th[t] EXCEPT !.recv_snapshot = recv_ptr, !.pc = "tm_local"],
              recv_ptr, local_ptr, recent_ptr, heap)
    /\ UNCHANGED <<file, file_mtime, pipe, sent, now, msgs_left, edits_left, polls_left,
                   appended, drained, merged_once, merged_twice, registry>>

\* try_merge_if_needed: auto local_snapshot = local_ptr; total; the test,
\* and to_merge when it holds.
TM_Local(t) ==
    /\ th[t].pc = "tm_local"
    /\ LET r == th[t]
           total == Len(heap[r.recv_snapshot]) + Len(heap[local_ptr])
                    + Len(r.local_ops_for_merge)
       IN Commit(t,
                 IF ShouldMerge(total)
                 THEN [r EXCEPT !.local_snapshot = local_ptr,
                                !.to_merge = r.local_ops_for_merge \o heap[local_ptr],
                                !.pc = "tm_clear"]
                 ELSE Return(t, r),
                 recv_ptr, local_ptr, recent_ptr, heap)
    /\ UNCHANGED <<file, file_mtime, pipe, sent, now, msgs_left, edits_left, polls_left,
                   appended, drained, merged_once, merged_twice, registry>>

\* try_merge_if_needed: local_ptr = make_shared(); then the call of
\* merge_and_apply(to_merge, user_id).
TM_Clear(t) ==
    /\ th[t].pc = "tm_clear"
    /\ LET r == th[t]
           e == MakeEmpty(heap)
       IN /\ Commit(t, [r EXCEPT !.pc = "ma_read"],
                    recv_ptr, e[1], recent_ptr, e[2])
          /\ drained' = [drained EXCEPT !.local = @ \cup Items(heap[local_ptr])]
          /\ merged_once' = MergedOnce(heap[r.local_snapshot])
          /\ merged_twice' = MergedTwice(heap[r.local_snapshot])
    /\ UNCHANGED <<file, file_mtime, pipe, sent, now, msgs_left, edits_left, polls_left,
                   appended, registry>>

\* merge_and_apply: vector<string> doc = read_file(filename);
MA_Read(t) ==
    /\ th[t].pc = "ma_read"
    /\ Commit(t, [th[t] EXCEPT !.doc = file, !.pc = "ma_snap"],
              recv_ptr, local_ptr, recent_ptr, heap)
    /\ UNCHANGED <<file, file_mtime, pipe, sent, now, msgs_left, edits_left, polls_left,
                   appended, drained, merged_once, merged_twice, registry>>

\* merge_and_apply: auto recv_snapshot = recv_ptr;
MA_Snap(t) ==
    /\ th[t].pc = "ma_snap"
    /\ Commit(t, [th[t] EXCEPT !.ma_recv = recv_ptr, !.pc = "ma_clear"],
              recv_ptr, local_ptr, recent_ptr, heap)
    /\ UNCHANGED <<file, file_mtime, pipe, sent, now, msgs_left, edits_left, polls_left,
                   appended, drained, merged_once, merged_twice, registry>>

\* A merge without the test of all.empty().  AfterCombine differs from it,
\* and C9 tells them apart.
AfterCombineNoReturn(t, r, all) == [r EXCEPT !.all = all, !.pc = "ma_write"]

\* The locals after all is built: if (all.empty()) return; else the merge
\* goes on to resolve, replay and write.
AfterCombine(t, r, all) ==
    IF all = <<>> THEN Return(t, r)
    ELSE [r EXCEPT !.all = all, !.pc = "ma_write"]

\* merge_and_apply: recv_ptr = make_shared(); all = local_ops followed by
\* *recv_snapshot; the test of all.empty().
MA_Clear(t) ==
    /\ th[t].pc = "ma_clear"
    /\ LET r == th[t]
           e == MakeEmpty(heap)
           all == r.to_merge \o heap[r.ma_recv]
       IN /\ Commit(t, AfterCombine(t, r, all), e[1], local_ptr, recent_ptr, e[2])
          /\ drained' = [drained EXCEPT !.recv = @ \cup Items(heap[recv_ptr])]
          /\ merged_once' = MergedOnce(heap[r.ma_recv])
          /\ merged_twice' = MergedTwice(heap[r.ma_recv])
    /\ UNCHANGED <<file, file_mtime, pipe, sent, now, msgs_left, edits_left, polls_left,
                   appended, registry>>

\* The most lines the process has memory for: extending doc beyond them ends
\* in std::bad_alloc.
MaxDocLines == 6

\* The process is gone (an uncaught exception, a fault): no thread steps.
Aborted == [t \in Threads |-> [th[t] EXCEPT !.pc = "aborted"]]

\* merge_and_apply, from max_line to write_file_from_lines: the document is
\* extended, the conflicts resolved, the kept operations replayed line by
\* line and the result written.  doc[line_no] with a line_no that is no index
\* of doc is undefined behaviour: the process faults, or goes on with the
\* lines that are indices.
MA_Write(t) ==
    /\ th[t].pc = "ma_write"
    /\ LET r == th[t] IN
       IF MaxLine(r.all) >= MaxDocLines
       THEN /\ th' = Aborted
            /\ UNCHANGED <<recv_ptr, local_ptr, recent_ptr, heap, file, file_mtime>>
       ELSE \/ /\ ~LineInBounds(r.all, r.doc)
               /\ th' = Aborted
               /\ UNCHANGED <<recv_ptr, local_ptr, recent_ptr, heap, file, file_mtime>>
            \/ \E d \in MergeOutcomes(r.all, r.doc) :
                  /\ Commit(t, [r EXCEPT !.doc = d, !.pc = "ma_disp"],
                            recv_ptr, local_ptr, recent_ptr, heap)
                  /\ file' = d
                  /\ file_mtime' = file_mtime + 1
    /\ UNCHANGED <<pipe, sent, now, msgs_left, edits_left, polls_left, appended, drained,
                   merged_once, merged_twice, registry>>

\* display_file: auto recent_snapshot = recent_ptr; (called by
\* merge_and_apply after the write, and by main after a change of the file)
DisplaySnap(t) ==
    /\ th[t].pc \in {"ma_disp", "m_disp"}
    /\ Commit(t, [th[t] EXCEPT !.recent_snapshot = recent_ptr,
                               !.pc = IF th[t].pc = "ma_disp" THEN "ma_print"
                                      ELSE "m_print"],
              recv_ptr, local_ptr, recent_ptr, heap)
    /\ UNCHANGED <<file, file_mtime, pipe, sent, now, msgs_left, edits_left, polls_left,
                   appended, drained, merged_once, merged_twice, registry>>

\* display_file: the loop printing *recent_snapshot, and the return; in
\* merge_and_apply the "[Merging complete]" line and the return follow, in
\* main the call of detect_changes.
DisplayPrint(t) ==
    /\ th[t].pc \in {"ma_print", "m_print"}
    /\ Commit(t,
              IF th[t].pc = "ma_print" THEN Return(t, th[t])
              ELSE [th[t] EXCEPT !.recent_snapshot = Null, !.i = 0, !.pc = "m_dc"],
              recv_ptr, local_ptr, recent_ptr, heap)
    /\ UNCHANGED <<file, file_mtime, pipe, sent, now, msgs_left, edits_left, polls_left,
                   appended, drained, merged_once, merged_twice, registry>>

\* ------------------------------------------------------------------------
\* The listener thread
\* ------------------------------------------------------------------------
\* The offset at which each field of an UpdateObject ends.
FieldEnd ==
    [line |-> 16, start_col |-> 20, end_col |-> 24, old_content |-> 280,
     new_content |-> 536, ts |-> 576, user_id |-> RECORD_SIZE]

\* upd after a read has stored the first n bytes of rec in it: the fields
\* that end within n bytes are those of rec, the others are as they were.
ReadInto(upd, rec, n) ==
    LET field(f) == IF FieldEnd[f] <= n THEN rec[f] ELSE upd[f] IN
    [line |-> field("line"), start_col |-> field("start_col"),
     end_col |-> field("end_col"), old_content |-> field("old_content"),
     new_content |-> field("new_content"), ts |-> field("ts"),
     user_id |-> field("user_id")]

\* What one write has left in the pipe: the first n bytes of the record rec.
Written(rec, n) == [n |-> n, rec |-> rec]

\* read(fd, &upd, sizeof(upd)) with n > 0: the bytes one write left in the
\* pipe are in upd, its other bytes as the read before left them;
\* auto cur = recv_ptr; auto next = make_shared(*cur); next->push_back(upd);
L_Read ==
    /\ th["listener"].pc = "l_read"
    /\ pipe # <<>>
    /\ Head(pipe).n > 0
    /\ LET r == th["listener"]
           u == ReadInto(r.upd, Head(pipe).rec, Head(pipe).n)
           n == AppendCopy(heap, recv_ptr, u)
       IN Commit("listener", [r EXCEPT !.upd = u, !.cur = recv_ptr,
                                       !.next = n[1], !.pc = "l_pub"],
                 recv_ptr, local_ptr, recent_ptr, n[2])
    /\ pipe' = Tail(pipe)
    /\ UNCHANGED <<file, file_mtime, sent, now, msgs_left, edits_left, polls_left,
                   appended, drained, merged_once, merged_twice, registry>>

\* read with n <= 0: sleep_for(100ms) and read again.
L_Idle ==
    /\ th["listener"].pc = "l_read"
    /\ pipe = <<>>
    /\ UNCHANGED vars

\* recv_ptr = next;
L_Pub ==
    /\ th["listener"].pc = "l_pub"
    /\ LET r == th["listener"] IN
       /\ Commit("listener", [r EXCEPT !.pc = "l_rcur"],
                 r.next, local_ptr, recent_ptr, heap)
       /\ appended' = [appended EXCEPT !.recv = @ \cup {r.upd}]
    /\ UNCHANGED <<file, file_mtime, pipe, sent, now, msgs_left, edits_left, polls_left,
                   drained, merged_once, merged_twice, registry>>

\* The vector append_recent_notification builds from the items of *cur.
RecentNext(items, msg) ==
    LET n == Append(items, msg) IN
    IF Len(n) > MAX_NOTIFICATIONS THEN Tail(n) ELSE n

\* append_recent_notification: auto cur = recent_ptr; next = copy, push_back,
\* erase of the first beyond MAX_NOTIFICATIONS.  The message is the rendering
\* of upd, modelled by upd.
L_RCur ==
    /\ th["listener"].pc = "l_rcur"
    /\ LET r == th["listener"]
           n == NewVector(heap, RecentNext(heap[recent_ptr], r.upd))
       IN Commit("listener", [r EXCEPT !.rcur = recent_ptr, !.rnext = n[1], !.pc = "l_rpub"],
                 recv_ptr, local_ptr, recent_ptr, n[2])
    /\ UNCHANGED <<file, file_mtime, pipe, sent, now, msgs_left, edits_left, polls_left,
                   appended, drained, merged_once, merged_twice, registry>>

\* append_recent_notification: recent_ptr = next; the return, safe_print and
\* the call try_merge_if_needed(user_id).
L_RPub ==
    /\ th["listener"].pc = "l_rpub"
    /\ LET r == th["listener"] IN
       Commit("listener", [r EXCEPT !.rcur = Null, !.rnext = Null,
                                    !.local_ops_for_merge = <<>>, !.pc = "tm_recv"],
              recv_ptr, local_ptr, r.rnext, heap)
    /\ UNCHANGED <<file, file_mtime, pipe, sent, now, msgs_left, edits_left, polls_left,
                   appended, drained, merged_once, merged_twice, registry>>

\* ------------------------------------------------------------------------
\* The main thread
\* ------------------------------------------------------------------------
\* main: stat finds st_mtime != last_mod_time; new_content = read_file, and
\* the call of display_file.  (With the time unchanged the loop sleeps and
\* polls again, which changes nothing.)
M_Poll ==
    /\ th["main"].pc = "m_poll"
    /\ file_mtime # th["main"].last_mod_time
    /\ polls_left > 0
    /\ Commit("main", [th["main"] EXCEPT !.last_mod_time = file_mtime,
                                         !.new_lines = file, !.pc = "m_disp"],
              recv_ptr, local_ptr, recent_ptr, heap)
    /\ polls_left' = polls_left - 1
    /\ UNCHANGED <<file, file_mtime, pipe, sent, now, msgs_left, edits_left,
                   appended, drained, merged_once, merged_twice, registry>>

\* The lines from i on for which the loop body of detect_changes builds upd.
Changed(old_lines, new_lines, i) ==
    {k \in i..(Max(Len(old_lines), Len(new_lines)) - 1) :
        EmitsUpdate(LineAt(old_lines, k), LineAt(new_lines, k))}

\* detect_changes: the loop runs to the next line that builds upd, then
\* auto cur = local_ptr; auto next = make_shared(*cur); next->push_back(upd);
\* with no such line left the loop ends.
M_Detect ==
    /\ th["main"].pc = "m_dc"
    /\ LET r == th["main"]
           ch == Changed(r.old_lines, r.new_lines, r.i)
       IN IF ch = {}
          THEN Commit("main", [r EXCEPT !.i = Max(Len(r.old_lines), Len(r.new_lines)),
                                        !.pc = "m_end"],
                      recv_ptr, local_ptr, recent_ptr, heap)
          ELSE LET k == CHOOSE x \in ch : \A y \in ch : x <= y
                   u == MakeUpdate(LineAt(r.old_lines, k), LineAt(r.new_lines, k), k, now)
                   n == AppendCopy(heap, local_ptr, u)
               IN Commit("main", [r EXCEPT !.i = k, !.upd = u, !.cur = local_ptr,
                                           !.next = n[1], !.pc = "m_pub"],
                         recv_ptr, local_ptr, recent_ptr, n[2])
    /\ UNCHANGED <<file, file_mtime, pipe, sent, now, msgs_left, edits_left, polls_left,
                   appended, drained, merged_once, merged_twice, registry>>

\* detect_changes: local_ptr = next; and the test next->size() >=
\* MERGE_THRESHOLD, with the call try_merge_if_needed(user_id) when it fails.
M_Pub ==
    /\ th["main"].pc = "m_pub"
    /\ LET r == th["main"] IN
       /\ Commit("main",
                 IF Len(heap[r.next]) >= MERGE_THRESHOLD
                 THEN [r EXCEPT !.pc = "m_bclear"]
                 ELSE [r EXCEPT !.local_ops_for_merge = <<>>, !.pc = "tm_recv"],
                 recv_ptr, r.next, recent_ptr, heap)
       /\ appended' = [appended EXCEPT !.local = @ \cup {r.upd}]
    /\ UNCHANGED <<file, file_mtime, pipe, sent, now, msgs_left, edits_left, polls_left,
                   drained, merged_once, merged_twice, registry>>

\* detect_changes: to_send = *next; local_ptr = make_shared();
M_BClear ==
    /\ th["main"].pc = "m_bclear"
    /\ LET r == th["main"]
           e == MakeEmpty(heap)
       IN /\ Commit("main", [r EXCEPT !.to_send = heap[r.next], !.pc = "m_bcast"],
                    recv_ptr, e[1], recent_ptr, e[2])
          /\ drained' = [drained EXCEPT !.local = @ \cup Items(heap[local_ptr])]
          /\ merged_once' = MergedOnce(heap[r.next])
          /\ merged_twice' = MergedTwice(heap[r.next])
    /\ UNCHANGED <<file, file_mtime, pipe, sent, now, msgs_left, edits_left, polls_left,
                   appended, registry>>

\* detect_changes: broadcast_update for every item of to_send, then the call
\* try_merge_if_needed(user_id, to_send).
M_Bcast ==
    /\ th["main"].pc = "m_bcast"
    /\ LET r == th["main"] IN
       /\ Commit("main", [r EXCEPT !.local_ops_for_merge = r.to_send, !.pc = "tm_recv"],
                 recv_ptr, local_ptr, recent_ptr, heap)
       /\ sent' = sent \o r.to_send
    /\ UNCHANGED <<file, file_mtime, pipe, now, msgs_left, edits_left, polls_left,
                   appended, drained, merged_once, merged_twice, registry>>

\* detect_changes: old_lines = new_lines; then main sleeps two seconds.
M_End ==
    /\ th["main"].pc = "m_end"
    /\ Commit("main", [th["main"] EXCEPT !.old_lines = th["main"].new_lines,
                                         !.new_lines = <<>>, !.i = 0, !.pc = "m_poll"],
              recv_ptr, local_ptr, recent_ptr, heap)
    /\ now' = now + 2
    /\ UNCHANGED <<file, file_mtime, pipe, sent, msgs_left, edits_left, polls_left,
                   appended, drained, merged_once, merged_twice, registry>>

\* ------------------------------------------------------------------------
\* The environment: the peers and the user
\* ------------------------------------------------------------------------
\* The k-th record the peers write: edits of line 0 by the user "b".
PeerUpdate(k) ==
    [line |-> 0, start_col |-> k % 2, end_col |-> (k % 2) + 1,
     old_content |-> <<>>, new_content |-> <<48 + k>>, ts |-> 100 + k,
     user_id |-> <<98>>]

\* A peer's broadcast_update writes a record to this process's pipe.
PeerSend ==
    /\ msgs_left > 0
    /\ pipe' = Append(pipe, Written(PeerUpdate(msgs_left), RECORD_SIZE))
    /\ msgs_left' = msgs_left - 1
    /\ UNCHANGED <<recv_ptr, local_ptr, recent_ptr, heap, th, file, file_mtime,
                   sent, now, edits_left, polls_left, appended, drained, merged_once,
                   merged_twice, registry>>

\* The counts a write that stores less than a record returns: the record up
\* to the end of end_col, of old_content, of new_content and of ts.
ShortCounts ==
    {FieldEnd.end_col, FieldEnd.old_content, FieldEnd.new_content, FieldEnd.ts}

\* A peer's write(fd, &upd, sizeof(upd)) on its O_NONBLOCK descriptor stores
\* w < sizeof(upd) bytes (broadcast_update looks for w == -1 only): the pipe
\* holds the first w bytes of the record.
PeerSendShort ==
    /\ msgs_left > 0
    /\ \E w \in ShortCounts : pipe' = Append(pipe, Written(PeerUpdate(msgs_left), w))
    /\ msgs_left' = msgs_left - 1
    /\ UNCHANGED <<recv_ptr, local_ptr, recent_ptr, heap, th, file, file_mtime,
                   sent, now, edits_left, polls_left, appended, drained, merged_once,
                   merged_twice, registry>>

\* What the user may save over the document: a byte appended to line 0.
UserDocs(doc) == {[doc EXCEPT ![1] = Append(@, 120)]}

\* The user saves the document in an editor.
UserEdit ==
    /\ edits_left > 0
    /\ \E d \in UserDocs(file) : file' = d /\ d # file
    /\ file_mtime' = file_mtime + 1
    /\ edits_left' = edits_left - 1
    /\ UNCHANGED <<recv_ptr, local_ptr, recent_ptr, heap, th, pipe, sent, now,
                   msgs_left, polls_left, appended, drained, merged_once, merged_twice, registry>>

\* ------------------------------------------------------------------------
\* The program
\* ------------------------------------------------------------------------
MaxMsgs == 2

MaxEdits == 1

MaxPolls == 1

\* The document the user started from, and the document after the user has
\* appended a byte to line 0 and saved, k times.
StartDoc == <<<<97, 98>>>>

RECURSIVE SavedDoc(_)
SavedDoc(k) ==
    IF k = 0 THEN StartDoc
    ELSE [SavedDoc(k - 1) EXCEPT ![1] = Append(@, 120)]

\* The operation detect_changes built for the k-th of these saves, two
\* seconds apart, the last of them two seconds before t.
RECURSIVE SavedUpdates(_, _)
SavedUpdates(k, t) ==
    IF k = 0 THEN <<>>
    ELSE Append(SavedUpdates(k - 1, t - 2),
                MakeUpdate(SavedDoc(k - 1)[1], SavedDoc(k)[1], 0, t - 2))

\* The identifier of the peer that writes PeerUpdate.
peer_id == <<98>>

\* The Registry after the peer and this process have called register_user.
Registered == register_user(register_user(EmptyRegistry, peer_id), user_id)

\* Both threads between two events, after detect_changes has seen k saves
\* and no record has arrived: the k operations are in the local buffer
\* (k < MERGE_THRESHOLD, so nothing was broadcast or merged).
Between(k) ==
    /\ recv_ptr = 1
    /\ local_ptr = 2
    /\ recent_ptr = 3
    /\ now = 100
    /\ heap = <<<<>>, SavedUpdates(k, now), <<>>>>
    /\ sent = <<>>
    /\ appended = [recv |-> {}, local |-> Items(SavedUpdates(k, now))]
    /\ drained = [recv |-> {}, local |-> {}]
    /\ merged_once = {}
    /\ merged_twice = {}
    /\ file = SavedDoc(k)
    /\ file_mtime = k
    /\ th = [t \in Threads |->
               IdleLocals(IF t = "listener" THEN "l_read" ELSE "m_poll", file, k)]
    /\ pipe = <<>>

\* The program at the start of main (Between(0)), or later, one operation
\* short of the threshold; the peer and this process have registered.
Init ==
    /\ \E k \in {0, MERGE_THRESHOLD - 1} : Between(k)
    /\ registry = Registered
    /\ msgs_left = MaxMsgs
    /\ edits_left = MaxEdits
    /\ polls_left = MaxPolls

Next ==
    \/ \E t \in Threads :
          \/ TM_Recv(t)
          \/ TM_Local(t)
          \/ TM_Clear(t)
          \/ MA_Read(t)
          \/ MA_Snap(t)
          \/ MA_Clear(t)
          \/ MA_Write(t)
          \/ DisplaySnap(t)
          \/ DisplayPrint(t)
    \/ L_Read
    \/ L_Idle
    \/ L_Pub
    \/ L_RCur
    \/ L_RPub
    \/ M_Poll
    \/ M_Detect
    \/ M_Pub
    \/ M_BClear
    \/ M_Bcast
    \/ M_End
    \/ PeerSend
    \/ UserEdit

Spec == Init /\ [][Next]_vars

\* ------------------------------------------------------------------------
\* Properties of the two threads (Spec)
\* ------------------------------------------------------------------------
\* The operations in each buffer now.
InBuffer == [recv |-> Items(heap[recv_ptr]), local |-> Items(heap[local_ptr])]

\* C3: exactly-once draining.  Under every interleaving of the listener and
\* the main thread, each operation that was appended to the remote or to the
\* local buffer is still in its buffer or has been handed to a merge batch,
\* and no operation has been handed to a merge batch twice.
C3_ExactlyOnce ==
    /\ \A op \in appended.recv : op \in InBuffer.recv \/ op \in merged_once
    /\ \A op \in appended.local : op \in InBuffer.local \/ op \in merged_once
    /\ merged_twice = {}

\* Thread t is in merge_and_apply between read_file and write_file_from_lines.
InMerge(t) == th[t].pc \in {"ma_snap", "ma_clear", "ma_write"}

\* C4: merge mutual exclusion.  In every reachable state at most one thread
\* is in merge_and_apply between its read of the document file and its
\* write-back.
C4_MutualExclusion == ~(InMerge("listener") /\ InMerge("main"))

\* s is an initial part of t.
IsPrefix(s, t) == Len(s) <= Len(t) /\ SubSeq(t, 1, Len(s)) = s

\* What C5 allows a buffer to become in one step: the empty snapshot of a
\* drain, or the snapshot before with items appended at its end, none of them
\* an item that a drain has removed.
MonotoneStep(before, after, removed) ==
    \/ after = <<>>
    \/ /\ IsPrefix(before, after)
       /\ Items(after) \cap removed = {}

\* C5: buffer monotonicity between drains.  For the remote and for the local
\* buffer, every step leaves the published snapshot as it was, appends items
\* at its end, or publishes the empty snapshot of a drain; an item a drain
\* has removed is in no snapshot published later, and no item disappears
\* except through a drain.
C5_Monotone ==
    [][/\ MonotoneStep(heap[recv_ptr], heap'[recv_ptr'], drained.recv)
       /\ MonotoneStep(heap[local_ptr], heap'[local_ptr'], drained.local)]_vars

\* Thread t takes a step from pc value from to pc value to.
Goes(t, from, to) == th[t].pc = from /\ th'[t].pc = to

\* Thread t takes a step of an append: the copy with push_back, or the
\* assignment publishing it.
AppendStep(t) ==
    \/ t = "listener" /\ Goes(t, "l_read", "l_pub")
    \/ t = "listener" /\ Goes(t, "l_pub", "l_rcur")
    \/ t = "listener" /\ Goes(t, "l_rcur", "l_rpub")
    \/ t = "listener" /\ Goes(t, "l_rpub", "tm_recv")
    \/ t = "main" /\ Goes(t, "m_dc", "m_pub")
    \/ t = "main" /\ th[t].pc = "m_pub" /\ th'[t].pc # "m_pub"

Last(s) == s[Len(s)]

\* C6: snapshot isolation.  A step of an append by one thread leaves the
\* contents of every snapshot the other thread holds as they were, and when
\* the append has published, the vector the pointer names ends with the
\* appended item.
C6_SnapshotIsolation ==
    [][/\ \A t \in Threads : \A u \in Threads \ {t} : \A h \in Handles :
             (AppendStep(t) /\ th[u][h] # Null)
                => (th'[u][h] # Null /\ heap'[th'[u][h]] = heap[th[u][h]])
       /\ Goes("listener", "l_pub", "l_rcur")
             => Last(heap'[recv_ptr']) = th["listener"].upd
       /\ Goes("listener", "l_rpub", "tm_recv")
             => Last(heap'[recent_ptr']) = th["listener"].upd
       /\ (th["main"].pc = "m_pub" /\ th'["main"].pc # "m_pub")
             => Last(heap'[local_ptr']) = th["main"].upd]_vars

\* The main thread holds a snapshot of the remote buffer taken before the
\* listener appended upd, and the listener has published the append: the
\* buffer is the snapshot with upd at its end.
C6_Witness ==
    /\ th["main"].recv_snapshot # Null
    /\ th["listener"].pc = "l_rcur"
    /\ heap[recv_ptr] = Append(heap[th["main"].recv_snapshot], th["listener"].upd)

\* The sum try_merge_if_needed is about to compare with MERGE_THRESHOLD, for
\* thread t between its two snapshots: the size of the remote snapshot it
\* holds, of the local buffer it captures next and of the operations passed.
TotalOf(t) ==
    Len(heap[th[t].recv_snapshot]) + Len(heap[local_ptr])
        + Len(th[t].local_ops_for_merge)

\* C11: the threshold trigger.  When try_merge_if_needed has taken its two
\* snapshots, it goes on to clear the local buffer and to call
\* merge_and_apply exactly when the sizes of the remote snapshot and of the
\* local snapshot and the number of operations passed in add up to
\* MERGE_THRESHOLD or more; with a smaller sum it returns to its caller and
\* both buffers are as they were.  A thread enters merge_and_apply from
\* nowhere else, and it enters with the operations passed in followed by the
\* local snapshot.
C11_ThresholdTrigger ==
    [][\A t \in Threads :
          /\ (th[t].pc = "tm_local" /\ th'[t].pc # "tm_local")
                => /\ th'[t].pc = "tm_clear" <=> TotalOf(t) >= MERGE_THRESHOLD
                   /\ TotalOf(t) < MERGE_THRESHOLD
                         => /\ th'[t].pc = Return(t, th[t]).pc
                            /\ heap'[recv_ptr'] = heap[recv_ptr]
                            /\ heap'[local_ptr'] = heap[local_ptr]
                   /\ TotalOf(t) >= MERGE_THRESHOLD
                         => th'[t].to_merge
                               = th[t].local_ops_for_merge \o heap[local_ptr]
          /\ (th[t].pc = "tm_clear" /\ th'[t].pc # "tm_clear")
                => th'[t].pc = "ma_read"
          /\ (th[t].pc # "ma_read" /\ th'[t].pc = "ma_read")
                => th[t].pc = "tm_clear"]_vars

\* The listener has found a sum of exactly MERGE_THRESHOLD, one record in its
\* remote snapshot and the others in the local snapshot, and is about to
\* clear the local buffer and merge.
C11_Witness ==
    /\ th["listener"].pc = "tm_clear"
    /\ Len(heap[th["listener"].recv_snapshot]) = 1
    /\ Len(th["listener"].to_merge) = MERGE_THRESHOLD - 1

\* ------------------------------------------------------------------------
\* merge_and_apply on chosen batches (SpecMerge)
\* ------------------------------------------------------------------------
Op(line, start_col, end_col, text, ts, uid) ==
    [line |-> line, start_col |-> start_col, end_col |-> end_col,
     old_content |-> <<>>, new_content |-> text, ts |-> ts, user_id |-> uid]

\* Operations on the line "abcdef".  OpA, OpB, OpC form a chain: OpA and OpB
\* overlap, OpB and OpC overlap, OpA and OpC do not.  OpE has the range and
\* the ts of OpB and the smaller user_id.  OpG deletes, overlaps OpC and has
\* its ts.  OpH is the zero-width [3,3), which touches the start of OpC's
\* [3,5).  OpF is on the next line.
OpA == Op(0, 0, 2, <<88>>, 1, <<97>>)

OpB == Op(0, 1, 4, <<89>>, 2, <<98>>)

OpC == Op(0, 3, 5, <<90>>, 3, <<97>>)

OpE == Op(0, 1, 4, <<87>>, 2, <<97>>)

OpF == Op(1, 0, 0, <<81>>, 1, <<98>>)

OpG == Op(0, 4, 6, <<>>, 3, <<98>>)

OpH == Op(0, 3, 3, <<74>>, 1, <<98>>)

MergeOps == {OpA, OpB, OpC, OpE, OpF, OpG, OpH}

\* The documents merged into: "abcdef", and "ab", shorter than most ranges.
MergeDocs == {<<<<97, 98, 99, 100, 101, 102>>>>, <<<<97, 98>>>>}

MaxBatch == 3

\* The sequences of at most n distinct elements of S.
RECURSIVE SeqsOf(_, _)
SeqsOf(S, n) ==
    IF n = 0 THEN {<<>>}
    ELSE LET shorter == SeqsOf(S, n - 1) IN
         shorter \cup UNION {{Append(b, x) : x \in S \ Items(b)} : b \in shorter}

\* The main thread at the call merge_and_apply(local_ops, user_id) with
\* local_ops the first k operations of the batch b, the others in the remote
\* buffer, and the document d in the file; the listener waits for a record.
MergeStart(b, k, d) ==
    /\ recv_ptr = 1
    /\ local_ptr = 2
    /\ recent_ptr = 3
    /\ heap = <<SubSeq(b, k + 1, Len(b)), <<>>, <<>>>>
    /\ th = [t \in Threads |->
               IF t = "listener" THEN IdleLocals("l_read", d, 0)
               ELSE [IdleLocals("ma_read", d, 0) EXCEPT !.to_merge = SubSeq(b, 1, k)]]
    /\ file = d
    /\ file_mtime = 0
    /\ pipe = <<>>
    /\ sent = <<>>
    /\ now = 100
    /\ msgs_left = 0
    /\ edits_left = 0
    /\ polls_left = 0
    /\ appended = [recv |-> Items(SubSeq(b, k + 1, Len(b))),
                   local |-> Items(SubSeq(b, 1, k))]
    /\ drained = [recv |-> {}, local |-> Items(SubSeq(b, 1, k))]
    /\ merged_once = Items(SubSeq(b, 1, k))
    /\ merged_twice = {}
    /\ registry = Registered

InitMerge ==
    \E b \in SeqsOf(MergeOps, MaxBatch) : \E k \in 0..Len(b) : \E d \in MergeDocs :
        MergeStart(b, k, d)

NextMerge ==
    \/ MA_Read("main")
    \/ MA_Snap("main")
    \/ MA_Clear("main")
    \/ MA_Write("main")
    \/ DisplaySnap("main")
    \/ DisplayPrint("main")

SpecMerge == InitMerge /\ [][NextMerge]_vars

\* The arrangements of the sequence s.
Perms(s) ==
    {[k \in 1..Len(s) |-> s[f[k]]] :
        f \in {g \in [1..Len(s) -> 1..Len(s)] :
                 \A i, j \in 1..Len(s) : g[i] = g[j] => i = j}}

\* The operations of the batch that conflict resolution keeps.
Survivors(all) == {all[i] : i \in {k \in 1..Len(all) : Resolve(all)[k]}}

\* C1: merge determinism.  When merge_and_apply writes the document for a
\* batch, every permutation of the batch has the same surviving operations
\* and the written document as its one result.
C1_MergeDeterminism ==
    [][\A t \in Threads :
          Goes(t, "ma_write", "ma_disp")
             => \A p \in Perms(th[t].all) :
                   /\ Survivors(p) = Survivors(th[t].all)
                   /\ MergeOutcomes(p, th[t].doc) = {file'}]_vars

\* The line base with its columns [start_col, end_col), cut to the length of
\* base, replaced by the text of op.
Reflects(base, op) ==
    SubSeq(base, 1, Min(op.start_col, Len(base)))
        \o op.new_content
        \o SubSeq(base, Min(op.end_col, Len(base)) + 1, Len(base))

\* s is before t in byte-wise lexicographic order.
ByteLess(s, t) ==
    \E k \in 1..(Len(t)) :
        /\ \A j \in 1..(k - 1) : j <= Len(s) /\ s[j] = t[j]
        /\ (k > Len(s) \/ s[k] < t[k])

\* The operation last-writer-wins names for two conflicting operations: the
\* larger ts, and with equal ts the smaller user_id.
Winner(u, v) ==
    IF u.ts > v.ts THEN u
    ELSE IF v.ts > u.ts THEN v
    ELSE IF ByteLess(u.user_id, v.user_id) THEN u ELSE v

\* The batch of t is two operations of one line with overlapping ranges, of
\* different ts or of different user_id.
TwoInConflict(t) ==
    /\ Len(th[t].all) = 2
    /\ Conflict(th[t].all[1], th[t].all[2])
    /\ \/ th[t].all[1].ts # th[t].all[2].ts
       \/ th[t].all[1].user_id # th[t].all[2].user_id

\* C2: conflict resolution for a batch of two.  When the two operations of a
\* batch are on one line with overlapping ranges, the document written is the
\* document read with that line reflecting only the operation of the larger
\* ts, or with equal ts of the smaller user_id, whichever comes first.
C2_LastWriterWins ==
    [][\A t \in Threads :
          (Goes(t, "ma_write", "ma_disp") /\ TwoInConflict(t))
             => LET w == Winner(th[t].all[1], th[t].all[2])
                    d0 == ExtendDoc(th[t].doc, w.line)
                IN file' = [d0 EXCEPT ![w.line + 1] = Reflects(@, w)]]_vars

\* The merge has written for two conflicting operations of equal ts, the
\* second of the batch having the smaller user_id.
C2_Witness ==
    /\ th["main"].pc = "ma_disp"
    /\ TwoInConflict("main")
    /\ th["main"].all[1].ts = th["main"].all[2].ts
    /\ ByteLess(th["main"].all[2].user_id, th["main"].all[1].user_id)
    /\ file = th["main"].doc

\* The line base reflecting two operations of disjoint ranges: lo, whose
\* range ends where the range of hi starts or before, and hi.
BothEdits(base, lo, hi) ==
    SubSeq(base, 1, Min(lo.start_col, Len(base)))
        \o lo.new_content
        \o SubSeq(base, Min(lo.end_col, Len(base)) + 1, Min(hi.start_col, Len(base)))
        \o hi.new_content
        \o SubSeq(base, Min(hi.end_col, Len(base)) + 1, Len(base))

\* The batch of t is two operations of one line whose ranges do not overlap.
TwoDisjoint(t) ==
    /\ Len(th[t].all) = 2
    /\ th[t].all[1].line = th[t].all[2].line
    /\ ~ranges_overlap(th[t].all[1].start_col, th[t].all[1].end_col,
                       th[t].all[2].start_col, th[t].all[2].end_col)

\* C7: non-overlap independence.  When the two operations of a batch are on
\* one line with ranges that do not overlap, both survive, the line written
\* reflects both edits, and the batch in the other order has the written
\* document as its one result.
C7_NonOverlap ==
    [][\A t \in Threads :
          (Goes(t, "ma_write", "ma_disp") /\ TwoDisjoint(t))
             => LET u == th[t].all[1]
                    v == th[t].all[2]
                    lo == IF u.end_col <= v.start_col THEN u ELSE v
                    hi == IF u.end_col <= v.start_col THEN v ELSE u
                    d0 == ExtendDoc(th[t].doc, u.line)
                IN /\ Survivors(th[t].all) = {u, v}
                   /\ file' = [d0 EXCEPT ![u.line + 1] = BothEdits(@, lo, hi)]
                   /\ MergeOutcomes(<<v, u>>, th[t].doc) = {file'}]_vars

\* C9: the empty batch.  When the batch merge_and_apply has combined is
\* empty, the step that finds it so returns to the caller: the file and its
\* modification time are as before, and the thread is at none of the write,
\* the redisplay and the completion message.
C9_EmptyBatch ==
    [][\A t \in Threads :
          (/\ th[t].pc = "ma_clear"
           /\ th'[t].pc # "ma_clear"
           /\ th[t].to_merge \o heap[th[t].ma_recv] = <<>>)
             => /\ file' = file
                /\ file_mtime' = file_mtime
                /\ th'[t].pc \notin {"ma_write", "ma_disp", "ma_print"}
                /\ th'[t].pc = Return(t, th[t]).pc]_vars

\* merge_and_apply has returned to detect_changes having found its batch
\* empty: nothing was handed to a merge and the file was not written.
C9_Witness ==
    /\ th["main"].pc = "m_dc"
    /\ th["main"].i = 1
    /\ merged_once = {}
    /\ drained.recv = {}
    /\ file_mtime = 0

\* ------------------------------------------------------------------------
\* merge_and_apply on records as received (SpecMergeRaw)
\* ------------------------------------------------------------------------
\* Values the int fields of a record read from the pipe can carry.
RawLines == {INT_MIN, -1, 0, 1, INT_MAX}

RawCols == {INT_MIN, -1, 0, 3, 9, INT_MAX}

RawOps ==
    {Op(l, sc, ec, <<88>>, 1, <<98>>) : l \in RawLines, sc \in RawCols, ec \in RawCols}

MaxRawBatch == 1

\* The main thread at the call of merge_and_apply with no local operations,
\* the records of b in the remote buffer and "abcdef" in the file.
InitMergeRaw ==
    \E b \in SeqsOf(RawOps, MaxRawBatch) :
        MergeStart(b, 0, <<<<97, 98, 99, 100, 101, 102>>>>)

SpecMergeRaw == InitMergeRaw /\ [][NextMerge]_vars

\* C10: out-of-range fields.  When merge_and_apply comes to replay its batch,
\* every kept operation names a line that is an index of the extended
\* document, and its columns, clamped, are positions of that line.
C10_InBounds ==
    \A t \in Threads :
        th[t].pc = "ma_write"
           => \A op \in Survivors(th[t].all) :
                 /\ 0 <= op.line
                 /\ op.line < ExtendedSize(th[t].doc, MaxLine(th[t].all))
                 /\ \A col \in {op.start_col, op.end_col} :
                       \A size \in 0..CONTENT_SIZE :
                           0 <= ClampCol(col, size) /\ ClampCol(col, size) <= size

\* ------------------------------------------------------------------------
\* detect_changes on chosen lines (SpecDiff)
\* ------------------------------------------------------------------------
\* A line of CONTENT_SIZE bytes "x": one more than an UpdateObject holds.
LongLine == [k \in 1..CONTENT_SIZE |-> 120]

\* "", "abc", "abd", "axbc", "abcabc", a line with a NUL byte, LongLine, and
\* LongLine with a "y" at its end.
DiffLines ==
    {<<>>, <<97, 98, 99>>, <<97, 98, 100>>, <<97, 120, 98, 99>>,
     <<97, 98, 99, 97, 98, 99>>, <<97, 0, 99>>, LongLine, Append(LongLine, 121)}

\* The main thread at the call of detect_changes(old_lines, new_content)
\* after the user has changed line 0 from a to b; line 1 is "zz" in both.
DiffStart(a, b) ==
    /\ recv_ptr = 1
    /\ local_ptr = 2
    /\ recent_ptr = 3
    /\ heap = <<<<>>, <<>>, <<>>>>
    /\ th = [t \in Threads |->
               IF t = "listener" THEN IdleLocals("l_read", <<a, <<122, 122>>>>, 0)
               ELSE [IdleLocals("m_dc", <<a, <<122, 122>>>>, 1)
                        EXCEPT !.new_lines = <<b, <<122, 122>>>>]]
    /\ file = <<b, <<122, 122>>>>
    /\ file_mtime = 1
    /\ pipe = <<>>
    /\ sent = <<>>
    /\ now = 100
    /\ msgs_left = 0
    /\ edits_left = 0
    /\ polls_left = 0
    /\ appended = [recv |-> {}, local |-> {}]
    /\ drained = [recv |-> {}, local |-> {}]
    /\ merged_once = {}
    /\ merged_twice = {}
    /\ registry = Registered

InitDiff == \E a \in DiffLines : \E b \in DiffLines : DiffStart(a, b)

NextDiff ==
    \/ M_Detect
    \/ M_Pub
    \/ TM_Recv("main")
    \/ TM_Local("main")
    \/ M_End

SpecDiff == InitDiff /\ [][NextDiff]_vars

\* The length of the longest common prefix of a and b.
CommonPrefix(a, b) ==
    CHOOSE p \in 0..Min(Len(a), Len(b)) :
        /\ SubSeq(a, 1, p) = SubSeq(b, 1, p)
        /\ \A q \in (p + 1)..Min(Len(a), Len(b)) : SubSeq(a, 1, q) # SubSeq(b, 1, q)

\* The length of the longest common suffix of a and b that leaves the first
\* p bytes of both alone.
CommonSuffix(a, b, p) ==
    CHOOSE n \in 0..(Min(Len(a), Len(b)) - p) :
        /\ SubSeq(a, Len(a) - n + 1, Len(a)) = SubSeq(b, Len(b) - n + 1, Len(b))
        /\ \A m \in (n + 1)..(Min(Len(a), Len(b)) - p) :
              SubSeq(a, Len(a) - m + 1, Len(a)) # SubSeq(b, Len(b) - m + 1, Len(b))

\* The operations of the local buffer for line k.
EmittedFor(k) == {j \in 1..Len(heap[local_ptr]) : heap[local_ptr][j].line = k}

\* C8: diff correctness.  The operation detect_changes has built for line i,
\* from old line a to new line b, has a # b, old_content a[p:old_end] and
\* new_content b[p:new_end], and a with [p, old_end) replaced by new_content
\* is b; and when the loop has ended, the buffer holds exactly one operation
\* for every line that differs and none for a line that does not.
C8_DiffCorrect ==
    LET r == th["main"]
        a == LineAt(r.old_lines, r.i)
        b == LineAt(r.new_lines, r.i)
        p == CommonPrefix(a, b)
        old_end == Len(a) - CommonSuffix(a, b, p)
        new_end == Len(b) - CommonSuffix(a, b, p)
    IN /\ r.pc = "m_pub"
          => /\ a # b
             /\ r.upd.line = r.i
             /\ r.upd.start_col = p
             /\ r.upd.old_content = SubSeq(a, p + 1, old_end)
             /\ r.upd.new_content = SubSeq(b, p + 1, new_end)
             /\ SubSeq(a, 1, p) \o r.upd.new_content \o SubSeq(a, old_end + 1, Len(a)) = b
       /\ r.pc = "m_end"
          => \A k \in 0..(Max(Len(r.old_lines), Len(r.new_lines)) - 1) :
                Cardinality(EmittedFor(k))
                   = IF LineAt(r.old_lines, k) # LineAt(r.new_lines, k) THEN 1 ELSE 0

\* The text s fits a content field of an UpdateObject as it is: it has no NUL
\* byte and at most CONTENT_CAP bytes.
FitsField(s) == Len(s) <= CONTENT_CAP /\ \A k \in 1..Len(s) : s[k] # 0

\* C8, with the limits of the content fields: the operation built for line i
\* has a # b and starts at p; when a[p:old_end] and b[p:new_end] fit a content
\* field, old_content and new_content are these and a with [p, old_end)
\* replaced by new_content is b; and when the loop has ended, the buffer holds
\* exactly one operation for every line that differs and none for a line that
\* does not.
C8_DiffCorrectCapped ==
    LET r == th["main"]
        a == LineAt(r.old_lines, r.i)
        b == LineAt(r.new_lines, r.i)
        p == CommonPrefix(a, b)
        old_end == Len(a) - CommonSuffix(a, b, p)
        new_end == Len(b) - CommonSuffix(a, b, p)
    IN /\ r.pc = "m_pub"
          => /\ a # b
             /\ r.upd.line = r.i
             /\ r.upd.start_col = p
             /\ (FitsField(SubSeq(a, p + 1, old_end)) /\ FitsField(SubSeq(b, p + 1, new_end)))
                   => /\ r.upd.old_content = SubSeq(a, p + 1, old_end)
                      /\ r.upd.new_content = SubSeq(b, p + 1, new_end)
                      /\ SubSeq(a, 1, p) \o r.upd.new_content
                            \o SubSeq(a, old_end + 1, Len(a)) = b
       /\ r.pc = "m_end"
          => \A k \in 0..(Max(Len(r.old_lines), Len(r.new_lines)) - 1) :
                Cardinality(EmittedFor(k))
                   = IF LineAt(r.old_lines, k) # LineAt(r.new_lines, k) THEN 1 ELSE 0

\* detect_changes has built the operation for "abc" changed to "axbc": a
\* common prefix "a", a common suffix "bc", and "x" put in place of "".
C8_Witness ==
    /\ th["main"].pc = "m_pub"
    /\ LineAt(th["main"].old_lines, th["main"].i) = <<97, 98, 99>>
    /\ LineAt(th["main"].new_lines, th["main"].i) = <<97, 120, 98, 99>>
    /\ th["main"].upd.start_col = 1
    /\ th["main"].upd.old_content = <<>>
    /\ th["main"].upd.new_content = <<120>>

\* ------------------------------------------------------------------------
\* The listener on whole and on short records (SpecRead)
\* ------------------------------------------------------------------------
\* The process at the start of main; the peers' writes store a record or the
\* first bytes of one.
InitRead ==
    /\ Between(0)
    /\ registry = Registered
    /\ msgs_left = MaxMsgs
    /\ edits_left = 0
    /\ polls_left = 0

NextRead ==
    \/ PeerSend
    \/ PeerSendShort
    \/ L_Read
    \/ L_Idle
    \/ L_Pub
    \/ L_RCur
    \/ L_RPub
    \/ TM_Recv("listener")
    \/ TM_Local("listener")

SpecRead == InitRead /\ [][NextRead]_vars

\* C12: partial reads are not messages.  The listener goes on from its read
\* to the append only when the read returned RECORD_SIZE bytes; after a read
\* of fewer bytes it appends nothing, and the remote buffer holds only
\* records a peer has written.
C12_WholeRecords ==
    [][/\ (th["listener"].pc = "l_read" /\ th'["listener"].pc # "l_read")
             => Head(pipe).n = RECORD_SIZE
       /\ (pipe # <<>> /\ Head(pipe).n < RECORD_SIZE)
             => heap'[recv_ptr'] = heap[recv_ptr]
       /\ \A u \in Items(heap'[recv_ptr']) :
             \E k \in 1..MaxMsgs : u = PeerUpdate(k)]_vars

\* ------------------------------------------------------------------------
\* register_user on chosen identifiers (SpecRegistry)
\* ------------------------------------------------------------------------
\* An identifier of n bytes "u".
LongId(n) == [k \in 1..n |-> 117]

\* The identifiers processes are started with: "a", "b", "c", "d", and
\* identifiers of one byte less than the field, of its size and of one more.
RegistryIds ==
    {<<97>>, <<98>>, <<99>>, <<100>>,
     LongId(USER_ID_SIZE - 1), LongId(USER_ID_SIZE), LongId(USER_ID_SIZE + 1)}

\* A process started with the identifier id calls register_user(id).
RegisterUser ==
    /\ \E id \in RegistryIds : registry' = register_user(registry, id)
    /\ UNCHANGED <<recv_ptr, local_ptr, recent_ptr, heap, th, file, file_mtime,
                   pipe, sent, now, msgs_left, edits_left, polls_left, appended,
                   drained, merged_once, merged_twice>>

\* The shared memory is new and no process has registered.  SpecRegistry
\* looks at the Registry alone: the threads of this process take no step.
InitRegistry ==
    /\ Between(0)
    /\ registry = EmptyRegistry
    /\ msgs_left = 0
    /\ edits_left = 0
    /\ polls_left = 0

NextRegistry == RegisterUser

SpecRegistry == InitRegistry /\ [][NextRegistry]_vars

\* C13: registry idempotence and bound.  After every sequence of calls of
\* register_user, user_count is at most MAX_USERS, no two entries hold the
\* same identifier, and a call with an identifier some entry holds leaves
\* user_count and the entries as they are.
C13_RegistryIdempotent ==
    /\ registry.user_count <= MAX_USERS
    /\ \A i, j \in 1..registry.user_count :
          registry.users[i] = registry.users[j] => i = j
    /\ \A id \in RegistryIds :
          (\E i \in 1..registry.user_count : registry.users[i] = id)
             => register_user(registry, id) = registry

\* ------------------------------------------------------------------------
\* Conflict resolution on three and more operations (SpecMerge, SpecGroup)
\* ------------------------------------------------------------------------
\* u wins the last-writer-wins comparison against v: the higher ts, or the
\* same ts and the lower user_id.
Beats(u, v) ==
    \/ u.ts > v.ts
    \/ u.ts = v.ts /\ ByteLess(u.user_id, v.user_id)

\* The operations of the batch that win against every operation of the
\* batch they conflict with.
WinsAll(all) ==
    {u \in Items(all) : \A v \in Items(all) \ {u} : Conflict(u, v) => Beats(u, v)}

\* C14: all-pairs elimination.  When merge_and_apply writes the document for
\* a batch, then in every order of the batch the operations conflict
\* resolution keeps are those that win the comparison against every
\* operation of the batch they conflict with, discarded ones included.
C14_AllPairs ==
    [][\A t \in Threads :
          Goes(t, "ma_write", "ma_disp")
             => \A p \in Perms(th[t].all) : Survivors(p) = WinsAll(p)]_vars

\* C16: survivors are conflict-free.  When merge_and_apply comes to group and
\* replay its batch, no two operations that conflict resolution has kept are
\* on the same line with overlapping ranges.
C16_ConflictFree ==
    \A t \in Threads :
        th[t].pc = "ma_write"
           => LET keep == Resolve(th[t].all) IN
              \A i, j \in 1..Len(th[t].all) :
                  (i # j /\ keep[i] /\ keep[j])
                     => ~(/\ th[t].all[i].line = th[t].all[j].line
                          /\ ranges_overlap(th[t].all[i].start_col, th[t].all[i].end_col,
                                            th[t].all[j].start_col, th[t].all[j].end_col))

\* The merge is about to replay the batch OpA, OpF, OpB: OpA and OpB overlap
\* with OpF, of another line, between them, and OpB alone of the two is
\* kept.
C16_Witness ==
    /\ th["main"].pc = "ma_write"
    /\ th["main"].all = <<OpA, OpF, OpB>>
    /\ Resolve(th["main"].all) = <<FALSE, TRUE, TRUE>>

\* Operations on the line "abcdef" whose ranges all hold column 3, with five
\* different ts.
GroupOps ==
    {Op(0, 0, 4, <<80>>, 1, <<97>>), Op(0, 1, 5, <<81>>, 4, <<98>>),
     Op(0, 3, 6, <<82>>, 2, <<97>>), Op(0, 2, 4, <<83>>, 3, <<98>>),
     Op(0, 3, 4, <<84>>, 5, <<97>>)}

InitGroup ==
    \E b \in SeqsOf(GroupOps, MaxBatch) : \E k \in 0..Len(b) : \E d \in MergeDocs :
        MergeStart(b, k, d)

SpecGroup == InitGroup /\ [][NextMerge]_vars

\* The batch has three or more operations, every two of them on the same
\* line with overlapping ranges and with different ts.
MutualGroup(all) ==
    /\ Len(all) >= 3
    /\ \A i, j \in 1..Len(all) :
          i # j => Conflict(all[i], all[j]) /\ all[i].ts # all[j].ts

\* The operation of the batch with the greatest ts.
Latest(all) == CHOOSE u \in Items(all) : \A v \in Items(all) : u.ts >= v.ts

\* C15: the global maximum survives a group.  When merge_and_apply writes
\* the document for a batch of three or more operations of one line whose
\* ranges overlap pairwise and whose ts differ pairwise, then in every order
\* of the batch exactly one operation is kept, the one with the greatest ts,
\* and the line written reflects that operation alone.
C15_GlobalMaximum ==
    [][\A t \in Threads :
          (Goes(t, "ma_write", "ma_disp") /\ MutualGroup(th[t].all))
             => LET w == Latest(th[t].all)
                    d0 == ExtendDoc(th[t].doc, w.line)
                IN /\ \A p \in Perms(th[t].all) : Survivors(p) = {w}
                   /\ file' = [d0 EXCEPT ![w.line + 1] = Reflects(@, w)]]_vars

\* The merge has written for a group of three in which the operation with
\* the greatest ts is in the middle of the batch and the one with the least
\* ts at its end.
C15_Witness ==
    /\ th["main"].pc = "ma_disp"
    /\ Len(th["main"].all) = 3
    /\ MutualGroup(th["main"].all)
    /\ th["main"].all[2] = Latest(th["main"].all)
    /\ th["main"].all[3].ts < th["main"].all[1].ts
    /\ file = th["main"].doc

\* ------------------------------------------------------------------------
\* Properties of the two threads: who writes, and what is broadcast (Spec)
\* ------------------------------------------------------------------------
\* Thread t takes the step at the pc value at.
StepsAt(t, at) == th[t].pc = at /\ th'[t].pc # at

\* Thread t assigns to local_ptr: the publication of an append and the clear
\* in detect_changes, the clear in try_merge_if_needed.
WritesLocal(t) ==
    StepsAt(t, "m_pub") \/ StepsAt(t, "m_bclear") \/ StepsAt(t, "tm_clear")

\* Thread t assigns to recv_ptr: the publication of an append in
\* listener_thread, the clear in merge_and_apply.
WritesRecv(t) == StepsAt(t, "l_pub") \/ StepsAt(t, "ma_clear")

\* C17: single writer per buffer.  In every execution local_ptr is assigned
\* to by the main thread only and recv_ptr by the listener thread only.
C17_SingleWriter ==
    [][\A t \in Threads :
          /\ WritesLocal(t) => t = "main"
          /\ WritesRecv(t) => t = "listener"]_vars

\* C18: broadcast before merge.  Whenever a thread enters merge_and_apply,
\* every operation it passes in, taken from the local buffer, has been
\* passed to broadcast_update before.
C18_BroadcastFirst ==
    \A t \in Threads :
        th[t].pc = "ma_read" => Items(th[t].to_merge) \subseteq Items(sent)

\* ------------------------------------------------------------------------
\* The operation of a diff, merged (SpecRoundTrip)
\* ------------------------------------------------------------------------
\* "", "abc", "abd", "ac", "axbc", "aXYc" and "abcabc".
RoundLines ==
    {<<>>, <<97, 98, 99>>, <<97, 98, 100>>, <<97, 99>>, <<97, 120, 98, 99>>,
     <<97, 88, 89, 99>>, <<97, 98, 99, 97, 98, 99>>}

\* The operation the detect_changes of the peer builds at time t for its
\* line 0 changed from a to b.
PeerDiff(a, b, t) == [MakeUpdate(a, b, 0, t) EXCEPT !.user_id = peer_id]

\* The main thread at the call of merge_and_apply, for a change of line 0
\* from a to b two seconds ago: either the peer made it, its operation is in
\* the remote buffer and line 0 of the file is a; or the user of this
\* process made it, the operation detect_changes built is passed in and
\* line 0 of the file is b.
InitRoundTrip ==
    \E a \in RoundLines : \E b \in RoundLines :
        /\ EmitsUpdate(a, b)
        /\ \/ MergeStart(<<PeerDiff(a, b, 98)>>, 0, <<a>>)
           \/ MergeStart(<<MakeUpdate(a, b, 0, 98)>>, 1, <<b>>)

SpecRoundTrip == InitRoundTrip /\ [][NextMerge]_vars

\* C19: the round trip on a peer.  When merge_and_apply writes the document
\* for a batch of the one operation that the detect_changes of the peer
\* built for a line changed from a to b, and the line of the document read
\* is a, then the line written is b.
C19_RoundTrip ==
    [][\A t \in Threads :
          Goes(t, "ma_write", "ma_disp")
             => \A a \in RoundLines : \A b \in RoundLines :
                   (/\ EmitsUpdate(a, b)
                    /\ th[t].doc = <<a>>
                    /\ th[t].all = <<PeerDiff(a, b, th[t].all[1].ts)>>)
                      => file' = <<b>>]_vars

\* C20: the replay of an own operation.  When merge_and_apply writes the
\* document for a batch of the one operation that the detect_changes of this
\* process built for a line changed from a to b, and the line of the
\* document read is b already, then the line written is b.
C20_OwnReplay ==
    [][\A t \in Threads :
          Goes(t, "ma_write", "ma_disp")
             => \A a \in RoundLines : \A b \in RoundLines :
                   (/\ EmitsUpdate(a, b)
                    /\ th[t].doc = <<b>>
                    /\ th[t].all = <<MakeUpdate(a, b, 0, th[t].all[1].ts)>>)
                      => file' = <<b>>]_vars

====
